---- MODULE Spec2Model ----
(***************************************************************************)
(* packx (src/src/lib.rs): packing of a data block into a Solution of      *)
(* seeds and nonces under a public key, with a proof-of-work difficulty.   *)
(*                                                                         *)
(* The solver and the verifier are modelled on a scaled instance: a byte   *)
(* has ByteBits bits, a u64 has U64Len bytes, the data has NumGroups       *)
(* groups of GroupSize bytes.  Every loop, wrap-around and comparison of   *)
(* the source is kept; only the widths are bounds.  The wire layout is     *)
(* modelled at its true size (BUMP_LEN, SEEDS_LEN, NONCES_LEN,             *)
(* SOLUTION_SIZE) under a second specification, SpecWire.                  *)
(***************************************************************************)
EXTENDS Integers, Sequences, FiniteSets, TLC

\* ------------------------------------------------------------ bounds
ByteBits == 1
U64Len == 2
NumGroups == 2
GroupSize == 2
PkLen == 2
HashLen == 2
MaxDifficulty == 2
MaxSalt == 4

MaxPattern == 3

\* ------------------------------------------------------------ program constants
SOLUTION_SIZE == 152
BUMP_LEN == 8
SEEDS_LEN == 16
NONCES_LEN == 128

ByteMod == 2 ^ ByteBits
U8Max == ByteMod - 1
Byte == 0 .. U8Max
U64Mod == ByteMod ^ U64Len
DataLen == NumGroups * GroupSize

\* ------------------------------------------------------------ state
VARIABLES
  salt,        \* which hash function of the family the build links
  pubkey,      \* solve's pubkey argument
  data,        \* solve's data argument
  difficulty,  \* solve's difficulty argument
  pc,          \* position in solve: "start", "loop", "done"
  bump,        \* solve's local `bump`
  tried,       \* the bumps whose loop body has run, in order
  ret,         \* solve's return value once pc = "done"
  call,        \* the last call of verify / unpack made on the result
  wsol,        \* wire: the Solution handed to serialize
  wbytes,      \* wire: the [u8; SOLUTION_SIZE] buffer
  wsrc,        \* wire: where wbytes comes from
  wback        \* wire: what deserialize returned

solver_vars == <<salt, pubkey, data, difficulty, pc, bump, tried, ret, call>>
wire_vars == <<wsol, wbytes, wsrc, wback>>
vars == <<salt, pubkey, data, difficulty, pc, bump, tried, ret, call,
          wsol, wbytes, wsrc, wback>>

\* ------------------------------------------------------------ Option
None == [some |-> FALSE]
Some(v) == [some |-> TRUE, val |-> v]

\* ------------------------------------------------------------ helpers
Zeros(n) == [i \in 1 .. n |-> 0]

RECURSIVE Concat(_)
Concat(inputs) ==
  IF inputs = <<>> THEN <<>> ELSE Head(inputs) \o Concat(Tail(inputs))

\* u64::to_le_bytes: least significant byte first.
to_le_bytes(x) ==
  [i \in 1 .. U64Len |-> (x \div (ByteMod ^ (i - 1))) % ByteMod]

to_be_bytes(x) ==
  [i \in 1 .. U64Len |-> (x \div (ByteMod ^ (U64Len - i))) % ByteMod]

\* u64::from_le_bytes
RECURSIVE from_le_bytes(_)
from_le_bytes(bytes) ==
  IF bytes = <<>> THEN 0 ELSE Head(bytes) + ByteMod * from_le_bytes(Tail(bytes))

\* u8::leading_zeros on a byte of ByteBits bits.
RECURSIVE leading_zeros_from(_, _)
leading_zeros_from(b, width) ==
  IF width = 0 THEN 0
  ELSE IF b >= 2 ^ (width - 1) THEN 0
  ELSE 1 + leading_zeros_from(b, width - 1)

leading_zeros(b) == leading_zeros_from(b, ByteBits)

\* ------------------------------------------------------------ hash
\* The hash is an external collaborator (BLAKE3): a deterministic function of
\* the concatenation of its input slices, giving HashLen bytes.  The model
\* takes it from a family indexed by `salt`; no property checked below may
\* rest on which member is linked.
RECURSIVE Absorb(_, _, _)
Absorb(acc, bytes, s) ==
  IF bytes = <<>> THEN acc
  ELSE Absorb((acc * acc + (2 * s + 3) * acc + Head(bytes) * (2 * Len(bytes) + 1) + s + 1)
                % (ByteMod ^ HashLen + 1),
              Tail(bytes), s)

Digest(acc) ==
  [i \in 1 .. HashLen |-> ((acc % (ByteMod ^ HashLen)) \div (ByteMod ^ (HashLen - i))) % ByteMod]

compute_hash(inputs, s) == Digest(Absorb(s + 1, Concat(inputs), s))

RECURSIVE get_difficulty(_)
get_difficulty(hash) ==
  IF hash = <<>> THEN 0
  ELSE LET lz == leading_zeros(Head(hash))
       IN  IF lz < ByteBits THEN lz ELSE lz + get_difficulty(Tail(hash))

\* ------------------------------------------------------------ Solution
Solution(bump_, seeds_, nonces_) ==
  [bump |-> bump_, seeds |-> seeds_, nonces |-> nonces_]

\* bytemuck::bytes_of on the #[repr(C)] struct of u8 arrays: the fields in
\* declaration order, alignment 1, no padding.
\* Mutant: the bump takes one byte of the struct.
bytes_of_u8_bump(solution) == <<solution.bump[1]>> \o solution.seeds \o solution.nonces

bytes_of(solution) == solution.bump \o solution.seeds \o solution.nonces

serialize(solution) == bytes_of(solution)

\* Mutant: the fields are read at the offsets of a one-byte bump.
deserialize_u8_bump(bytes) ==
  Solution(SubSeq(bytes, 1, 1) \o Zeros(BUMP_LEN - 1),
           SubSeq(bytes, 2, 1 + SEEDS_LEN),
           SubSeq(bytes, 2 + SEEDS_LEN, 1 + SEEDS_LEN + NONCES_LEN))

deserialize(bytes) ==
  Solution(SubSeq(bytes, 1, BUMP_LEN),
           SubSeq(bytes, BUMP_LEN + 1, BUMP_LEN + SEEDS_LEN),
           SubSeq(bytes, BUMP_LEN + SEEDS_LEN + 1, BUMP_LEN + SEEDS_LEN + NONCES_LEN))

solution_difficulty(solution, s) ==
  get_difficulty(compute_hash(<<serialize(solution)>>, s))

\* ------------------------------------------------------------ unpack
\* hash[0] of the chunk call: pubkey, bump, [seed], [nonce], chunk_idx_bytes.
chunk_hash0(pk, bump_bytes, seed, nonce, chunk_idx_bytes, s) ==
  compute_hash(<<pk, bump_bytes, <<seed>>, <<nonce>>, chunk_idx_bytes>>, s)[1]

unpack(pk, solution, s) ==
  IF solution.bump = Zeros(U64Len)
  THEN solution.nonces
  ELSE [i \in 1 .. DataLen |->
          chunk_hash0(pk, solution.bump,
                      solution.seeds[((i - 1) \div GroupSize) + 1],
                      solution.nonces[i], to_le_bytes(i - 1), s)]

\* ------------------------------------------------------------ solver
\* The nonce loop of find_nonce from `nonce` up to u8::MAX.
RECURSIVE find_nonce_from(_, _, _, _, _, _, _)
find_nonce_from(pk, bump_bytes, seed, chunk_idx_bytes, target, nonce, s) ==
  IF chunk_hash0(pk, bump_bytes, seed, nonce, chunk_idx_bytes, s) = target
  THEN Some(nonce)
  ELSE IF nonce = U8Max THEN None
  ELSE find_nonce_from(pk, bump_bytes, seed, chunk_idx_bytes, target, nonce + 1, s)

\* Mutant: the bump hashed most significant byte first.
find_nonce_be(pk, b, seed, chunk_idx, target, s) ==
  find_nonce_from(pk, to_be_bytes(b), seed, to_le_bytes(chunk_idx), target, 0, s)

find_nonce(pk, b, seed, chunk_idx, target, s) ==
  find_nonce_from(pk, to_le_bytes(b), seed, to_le_bytes(chunk_idx), target, 0, s)

\* The chunk loop of solve_with_seed from chunk k (0-based inside the group).
RECURSIVE solve_with_seed_from(_, _, _, _, _, _, _)
solve_with_seed_from(pk, d, b, seed, group_idx, k, s) ==
  IF k = GroupSize THEN Some(<<>>)
  ELSE LET chunk_idx == group_idx * GroupSize + k
           n == find_nonce(pk, b, seed, chunk_idx, d[chunk_idx + 1], s)
       IN  IF ~n.some THEN None
           ELSE LET rest == solve_with_seed_from(pk, d, b, seed, group_idx, k + 1, s)
                IN  IF rest.some THEN Some(<<n.val>> \o rest.val) ELSE None

solve_with_seed(pk, d, b, seed, group_idx, s) ==
  solve_with_seed_from(pk, d, b, seed, group_idx, 0, s)

\* Mutant: a group is given up when the seed at hand does not solve it.
seed_loop_no_retry(pk, d, b, group_idx, seed, s) ==
  LET n == solve_with_seed(pk, d, b, seed, group_idx, s)
  IN  IF n.some THEN Some([seed |-> seed, nonces |-> n.val]) ELSE None

\* The seed loop of one group: the first seed, from `seed` upwards, that
\* solves the group; None when seed wraps to 0.
RECURSIVE seed_loop(_, _, _, _, _, _)
seed_loop(pk, d, b, group_idx, seed, s) ==
  LET n == solve_with_seed(pk, d, b, seed, group_idx, s)
  IN  IF n.some THEN Some([seed |-> seed, nonces |-> n.val])
      ELSE IF (seed + 1) % ByteMod = 0 THEN None
      ELSE seed_loop(pk, d, b, group_idx, (seed + 1) % ByteMod, s)

\* The group loop of one bump: result after groups group_idx.., given the
\* result so far; None when some group exhausts its seeds (found = false).
RECURSIVE group_loop(_, _, _, _, _, _)
group_loop(pk, d, b, group_idx, result, s) ==
  IF group_idx = NumGroups THEN Some(result)
  ELSE LET g == seed_loop(pk, d, b, group_idx, 0, s)
       IN  IF ~g.some THEN None
           ELSE group_loop(pk, d, b, group_idx + 1,
                  Solution(result.bump,
                           [result.seeds EXCEPT ![group_idx + 1] = g.val.seed],
                           [i \in 1 .. DataLen |->
                              IF (i - 1) \div GroupSize = group_idx
                              THEN g.val.nonces[((i - 1) % GroupSize) + 1]
                              ELSE result.nonces[i]]),
                  s)

\* Mutant: the pass returns its covering without looking at the difficulty.
solve_bump_unchecked(pk, d, diff, b, s) ==
  group_loop(pk, d, b, 0,
             Solution(to_le_bytes(b), Zeros(NumGroups), Zeros(DataLen)), s)

\* One pass of solve's outer loop body for bump b: Some(result) when the
\* pass returns, None when it falls through to the next bump.
solve_bump(pk, d, diff, b, s) ==
  LET r == group_loop(pk, d, b, 0,
                      Solution(to_le_bytes(b), Zeros(NumGroups), Zeros(DataLen)), s)
  IN  IF r.some /\ solution_difficulty(r.val, s) >= diff THEN r ELSE None

\* ------------------------------------------------------------ verify
\* Mutant: the reconstruction is not compared with the data.
verify_unchecked_data(pk, d, solution, diff, s) ==
  IF diff = 0
  THEN /\ solution.nonces = d
       /\ solution.bump = Zeros(U64Len)
       /\ solution.seeds = Zeros(NumGroups)
  ELSE solution_difficulty(solution, s) >= diff

verify(pk, d, solution, diff, s) ==
  IF diff = 0
  THEN /\ solution.nonces = d
       /\ solution.bump = Zeros(U64Len)
       /\ solution.seeds = Zeros(NumGroups)
  ELSE /\ unpack(pk, solution, s) = d
       /\ solution_difficulty(solution, s) >= diff

\* ------------------------------------------------------------ inputs
PubkeySet ==
  {[i \in 1 .. PkLen |-> IF i = j THEN 1 ELSE 0] : j \in 0 .. PkLen}

\* The keys solve is run with: all zero, and the first byte set.
SolvePubkeys ==
  {[i \in 1 .. PkLen |-> IF i = j THEN 1 ELSE 0] : j \in 0 .. 1}

DataSet ==
  {[i \in 1 .. DataLen |->
      (a + b * (i - 1) + c * ((i - 1) \div GroupSize)) % ByteMod] :
     a \in 0 .. 1, b \in 0 .. 1, c \in 0 .. 1}

NoCall == [op |-> "none"]

\* A byte changed the way the tests change one: wrapping_add(1).
Tampered(seq) ==
  {[seq EXCEPT ![i] = (seq[i] + 1) % ByteMod] : i \in 1 .. Len(seq)}

TamperedSolutions(sol) ==
  {Solution(b, sol.seeds, sol.nonces) : b \in Tampered(sol.bump)}
    \cup {Solution(sol.bump, x, sol.nonces) : x \in Tampered(sol.seeds)}
    \cup {Solution(sol.bump, sol.seeds, n) : n \in Tampered(sol.nonces)}

\* The "identity" shape: bump and seeds zero, the data in the nonces.
Identity(d) == Solution(Zeros(U64Len), Zeros(NumGroups), d)

BaseSolutions == {Identity(data)} \cup (IF ret.some THEN {ret.val} ELSE {})

\* The arguments a caller hands to verify / unpack once solve has returned:
\* solve's own arguments and result, or one of them changed.
CallArgs ==
  {<<pubkey, data, sol>> : sol \in BaseSolutions}
    \cup {<<pk, data, sol>> : pk \in PubkeySet, sol \in BaseSolutions}
    \cup {<<pubkey, d, sol>> : d \in Tampered(data), sol \in BaseSolutions}
    \cup {<<pubkey, data, t>> : t \in UNION {TamperedSolutions(sol) : sol \in BaseSolutions}}

Init ==
  /\ salt \in 0 .. MaxSalt
  /\ pubkey \in SolvePubkeys
  /\ data \in DataSet
  /\ difficulty \in 0 .. MaxDifficulty
  /\ pc = "start"
  /\ bump = 0
  /\ tried = <<>>
  /\ ret = None
  /\ call = NoCall
  /\ wsol = None
  /\ wbytes = <<>>
  /\ wsrc = "none"
  /\ wback = None

\* solve, lines 111-118: the difficulty-0 branch.
SolveZero ==
  /\ pc = "start"
  /\ difficulty = 0
  /\ ret' = Some(Solution(Zeros(U64Len), Zeros(NumGroups), data))
  /\ pc' = "done"
  /\ UNCHANGED <<salt, pubkey, data, difficulty, bump, tried, call>>
  /\ UNCHANGED wire_vars

\* Mutant: the loop starts at bump 0.
SolveBeginAtZero ==
  /\ pc = "start"
  /\ difficulty # 0
  /\ bump' = 0
  /\ pc' = "loop"
  /\ UNCHANGED <<salt, pubkey, data, difficulty, tried, ret, call>>
  /\ UNCHANGED wire_vars

\* solve, line 120: enter the loop.
SolveBegin ==
  /\ pc = "start"
  /\ difficulty # 0
  /\ bump' = 1
  /\ pc' = "loop"
  /\ UNCHANGED <<salt, pubkey, data, difficulty, tried, ret, call>>
  /\ UNCHANGED wire_vars

\* Mutant: the bump counter is one byte wide.
SolveIterU8 ==
  /\ pc = "loop"
  /\ tried' = Append(tried, bump)
  /\ LET r == solve_bump(pubkey, data, difficulty, bump, salt)
         next == (bump + 1) % ByteMod
     IN  IF r.some
         THEN /\ ret' = r
              /\ pc' = "done"
              /\ bump' = bump
         ELSE /\ bump' = next
              /\ IF next = 0
                 THEN ret' = None /\ pc' = "done"
                 ELSE ret' = ret /\ pc' = "loop"
  /\ UNCHANGED <<salt, pubkey, data, difficulty, call>>
  /\ UNCHANGED wire_vars

\* solve, lines 122-165: one pass of the loop.
SolveIter ==
  /\ pc = "loop"
  /\ tried' = Append(tried, bump)
  /\ LET r == solve_bump(pubkey, data, difficulty, bump, salt)
         next == (bump + 1) % U64Mod
     IN  IF r.some
         THEN /\ ret' = r
              /\ pc' = "done"
              /\ bump' = bump
         ELSE /\ bump' = next
              /\ IF next = 0
                 THEN ret' = None /\ pc' = "done"
                 ELSE ret' = ret /\ pc' = "loop"
  /\ UNCHANGED <<salt, pubkey, data, difficulty, call>>
  /\ UNCHANGED wire_vars

\* A call of verify.
Verify ==
  /\ pc = "done"
  /\ call = NoCall
  /\ \E a \in CallArgs, diff \in 0 .. MaxDifficulty :
       call' = [op |-> "verify", pubkey |-> a[1], data |-> a[2], solution |-> a[3],
                difficulty |-> diff, out |-> verify(a[1], a[2], a[3], diff, salt)]
  /\ UNCHANGED <<salt, pubkey, data, difficulty, pc, bump, tried, ret>>
  /\ UNCHANGED wire_vars

\* A call of unpack.
Unpack ==
  /\ pc = "done"
  /\ call = NoCall
  /\ \E a \in CallArgs :
       call' = [op |-> "unpack", pubkey |-> a[1], data |-> a[2], solution |-> a[3],
                difficulty |-> 0, out |-> unpack(a[1], a[3], salt)]
  /\ UNCHANGED <<salt, pubkey, data, difficulty, pc, bump, tried, ret>>
  /\ UNCHANGED wire_vars

Next == SolveZero \/ SolveBegin \/ SolveIter \/ Verify \/ Unpack

Spec == Init /\ [][Next]_vars

\* ------------------------------------------------------------ wire
\* Solutions of the true size, filled the way the round-trip test fills one.
Fill(n, a, k) == [i \in 1 .. n |-> (a + k * (i - 1)) % 256]

WireSolutions ==
  {Solution(Fill(BUMP_LEN, a, k), Fill(SEEDS_LEN, a + k, 1), Fill(NONCES_LEN, a, k + 1)) :
     a \in {0, 1, 255}, k \in 0 .. MaxPattern}

InitWire ==
  /\ salt = 0
  /\ pubkey = <<>>
  /\ data = <<>>
  /\ difficulty = 0
  /\ pc = "wire"
  /\ bump = 0
  /\ tried = <<>>
  /\ ret = None
  /\ call = NoCall
  /\ wsol \in WireSolutions
  /\ wbytes = <<>>
  /\ wsrc = "none"
  /\ wback = None

\* serialize / Solution::to_bytes.  copy_from_slice panics unless the struct
\* has exactly SOLUTION_SIZE bytes.
WireSerialize ==
  /\ wsrc = "none"
  /\ IF Len(bytes_of(wsol)) = SOLUTION_SIZE
     THEN wbytes' = serialize(wsol) /\ wsrc' = "serialized"
     ELSE wbytes' = wbytes /\ wsrc' = "panic"
  /\ UNCHANGED <<wsol, wback>>
  /\ UNCHANGED solver_vars

\* The buffer changed in one byte on its way to deserialize.
WireTamper ==
  /\ wsrc = "serialized"
  /\ wback = None
  /\ \E off \in 1 .. Len(wbytes) :
       wbytes' = [wbytes EXCEPT ![off] = (wbytes[off] + 1) % 256]
  /\ wsrc' = "tampered"
  /\ UNCHANGED <<wsol, wback>>
  /\ UNCHANGED solver_vars

\* deserialize / Solution::from_bytes on a [u8; SOLUTION_SIZE] buffer.
WireDeserialize ==
  /\ wsrc \in {"serialized", "tampered"}
  /\ Len(wbytes) = SOLUTION_SIZE
  /\ wback = None
  /\ wback' = Some(deserialize(wbytes))
  /\ UNCHANGED <<wsol, wbytes, wsrc>>
  /\ UNCHANGED solver_vars

NextWire == WireSerialize \/ WireTamper \/ WireDeserialize

SpecWire == InitWire /\ [][NextWire]_vars

\* ============================================================ claims

\* The call made with solve's own arguments and the solution it returned.
OwnCall(op) ==
  /\ call.op = op
  /\ ret.some
  /\ call.pubkey = pubkey
  /\ call.data = data
  /\ call.solution = ret.val

\* C1: whenever solve(pk, data, D) returned Some(s), at D = 0 as at D >= 1,
\* verify(pk, data, s, D) returns true.
C1_SelfVerification ==
  (OwnCall("verify") /\ call.difficulty = difficulty) => call.out = TRUE

\* C1 witness: a solution found at D >= 1 after a failed bump has been verified.
C1_Witness ==
  /\ OwnCall("verify")
  /\ call.difficulty = difficulty
  /\ difficulty >= 1
  /\ Len(tried) >= 2
  /\ call.out = TRUE

\* C2: whenever solve(pk, data, D) returned Some(s), unpack(pk, s) is data byte
\* for byte; and for D >= 1 every stored nonce is the one find_nonce gives for
\* the tuple unpack hashes: the stored bump, the seed of group i/GroupSize and
\* the chunk index i.
C2_Reconstruction ==
  /\ OwnCall("unpack") => call.out = data
  /\ (pc = "done" /\ call = NoCall /\ ret.some /\ difficulty >= 1) =>
       \A i \in 1 .. DataLen :
         /\ find_nonce(pubkey, from_le_bytes(ret.val.bump),
                       ret.val.seeds[((i - 1) \div GroupSize) + 1],
                       i - 1, data[i], salt) = Some(ret.val.nonces[i])
         /\ chunk_hash0(pubkey, ret.val.bump,
                        ret.val.seeds[((i - 1) \div GroupSize) + 1],
                        ret.val.nonces[i], to_le_bytes(i - 1), salt) = data[i]

\* C2 witness: unpack has rebuilt the data from a solution with a non-zero bump
\* whose nonces are not the data themselves.
C2_Witness ==
  /\ OwnCall("unpack")
  /\ difficulty >= 1
  /\ ret.val.nonces # data
  /\ call.out = data

\* The hash relation of solution sol for data d under pk: every byte of d is
\* the first hash byte of its chunk call.
HashRelation(pk, d, sol) ==
  \A i \in 1 .. DataLen :
    chunk_hash0(pk, sol.bump, sol.seeds[((i - 1) \div GroupSize) + 1],
                sol.nonces[i], to_le_bytes(i - 1), salt) = d[i]

\* C3 (as claimed): verify accepts only solutions valid under the hash
\* relation, at every D and for every bump, and solve returns only such
\* solutions.
C3_AlwaysHashValid ==
  /\ (call.op = "verify" /\ call.out = TRUE) =>
       HashRelation(call.pubkey, call.data, call.solution)
  /\ (pc = "done" /\ ret.some) => HashRelation(pubkey, data, ret.val)

\* C4 (as claimed): verify(pk, data, sol, D) is true exactly when
\* unpack(pk, sol) = data and the difficulty of the serialized solution is
\* at least D, for every D >= 0.
C4_VerifyIsConjunction ==
  call.op = "verify" =>
    (call.out <=> /\ unpack(call.pubkey, call.solution, salt) = call.data
                  /\ solution_difficulty(call.solution, salt) >= call.difficulty)

\* C5 (as claimed): a solution returned by solve(pk, data, D) is rejected by
\* verify(pk', data, s, D) for every pk' other than pk, at every D.
C5_PubkeyBinding ==
  ( /\ call.op = "verify"
    /\ ret.some
    /\ call.solution = ret.val
    /\ call.data = data
    /\ call.difficulty = difficulty
    /\ call.pubkey # pubkey ) => call.out = FALSE

\* The data values other than d a caller may hand to verify.
OtherData(d) == (DataSet \cup Tampered(d)) \ {d}

\* C6: for a given pk, solution and D at most one data value is accepted: when
\* verify(pk, data, sol, D) is true, verify(pk, data', sol, D) is false for
\* every other data', at D = 0 as at D >= 1; in particular the solution solve
\* returned is rejected for data changed in one byte.
C6_DataTamper ==
  /\ (call.op = "verify" /\ call.out = TRUE) =>
       \A d \in OtherData(call.data) :
         ~verify(call.pubkey, d, call.solution, call.difficulty, salt)
  /\ ( /\ call.op = "verify"
       /\ ret.some
       /\ call.solution = ret.val
       /\ call.pubkey = pubkey
       /\ call.difficulty = difficulty
       /\ call.data # data ) => call.out = FALSE

\* C6 witness: a solution with a non-zero bump has been accepted at D >= 1.
C6_Witness ==
  /\ call.op = "verify"
  /\ call.out = TRUE
  /\ call.difficulty >= 1
  /\ call.solution.bump # Zeros(U64Len)

\* C9: solve at difficulty 0 returns Some of the solution with bump and seeds
\* zero and the data in the nonces, and unpack returns those nonces; a
\* solution returned at difficulty >= 1 has a non-zero bump, at least 1 read
\* as a little-endian u64, so unpack hashes every chunk of it.
C9_SolutionShape ==
  /\ (pc = "done" /\ difficulty = 0) =>
       /\ ret.some
       /\ ret.val.bump = Zeros(U64Len)
       /\ ret.val.seeds = Zeros(NumGroups)
       /\ ret.val.nonces = data
  /\ (OwnCall("unpack") /\ difficulty = 0) => call.out = ret.val.nonces
  /\ (pc = "done" /\ difficulty >= 1 /\ ret.some) =>
       /\ ret.val.bump # Zeros(U64Len)
       /\ from_le_bytes(ret.val.bump) >= 1

\* C9 witness: solve has returned a solution at difficulty >= 1.
C9_Witness ==
  /\ pc = "done"
  /\ difficulty >= 1
  /\ ret.some
  /\ call = NoCall

\* Whether the pass of the loop for bump b returns a solution.
Succeeds(b) == solve_bump(pubkey, data, difficulty, b, salt).some

Hits(b, sd, i, n) ==
  chunk_hash0(pubkey, to_le_bytes(b), sd, n, to_le_bytes(i - 1), salt) = data[i]

\* The data bytes of group g (0-based).
GroupBytes(g) == (g * GroupSize + 1) .. (g * GroupSize + GroupSize)

\* The seed candidates of group g under bump b: the seeds for which every
\* target byte of the group is reachable by some nonce.
Candidates(b, g) ==
  {sd \in Byte : \A i \in GroupBytes(g) : \E n \in Byte : Hits(b, sd, i, n)}

\* The smallest nonce reaching data byte i under bump b and seed sd.
FirstNonce(b, sd, i) ==
  CHOOSE n \in Byte : Hits(b, sd, i, n) /\ \A m \in 0 .. n - 1 : ~Hits(b, sd, i, m)

\* The solution of bump b that places seed t[g + 1] and its nonces in group g.
Materialize(b, t) ==
  Solution(to_le_bytes(b), t,
           [i \in 1 .. DataLen |-> FirstNonce(b, t[((i - 1) \div GroupSize) + 1], i)])

\* The tuples of the Cartesian product of the candidate lists of bump b.
CandidateTuples(b) ==
  {t \in [1 .. NumGroups -> Byte] : \A g \in 0 .. NumGroups - 1 : t[g + 1] \in Candidates(b, g)}

\* The tuple of the smallest candidate of every group (all groups have one).
FirstTuple(b) ==
  [k \in 1 .. NumGroups |->
     CHOOSE sd \in Candidates(b, k - 1) : \A o \in Candidates(b, k - 1) : sd <= o]

MeetsDifficulty(sol) == solution_difficulty(sol, salt) >= difficulty

\* The bump of the pass that has just ended, and whether solve moved past it.
PassEnded == tried # <<>> /\ call = NoCall /\ pc \in {"loop", "done"}
LastBump == tried[Len(tried)]
Abandoned == pc = "loop" \/ (pc = "done" /\ ~ret.some)

C7_RoundTrip ==
  /\ (wback.some /\ wsrc = "serialized") =>
       /\ wback.val.bump = wsol.bump
       /\ wback.val.seeds = wsol.seeds
       /\ wback.val.nonces = wsol.nonces
  /\ (wsrc \in {"serialized", "tampered"} /\ ~wback.some) => ENABLED WireDeserialize
  /\ wback.some =>
       /\ Len(wback.val.bump) = Len(wsol.bump)
       /\ Len(wback.val.seeds) = Len(wsol.seeds)
       /\ Len(wback.val.nonces) = Len(wsol.nonces)
       /\ serialize(wback.val) = wbytes
       /\ wsrc = "tampered" => wback.val # wsol

\* C7 witness: a solution with a non-zero multi-byte bump has gone through
\* serialize and deserialize.
C7_Witness ==
  /\ wback.some
  /\ wsrc = "serialized"
  /\ \E i \in 2 .. Len(wsol.bump) : wsol.bump[i] # 0
  /\ wback.val = wsol

====
